---- MODULE Spec2Model ----
(***************************************************************************)
(* Model of src/app.py, the forecast-accuracy dashboard.  One run of the   *)
(* script is a walk of pc from "start" to "done" (or "stopped" after       *)
(* st.stop()); every section of the script is one action.  Tables are      *)
(* sequences of records (a pandas DataFrame is an ordered list of rows).   *)
(*                                                                         *)
(* Encoding.  Dimension values (plant, category, variety, location,        *)
(* season) are coded as positive integers, a missing cell as NA, and the   *)
(* "All" entry of a multiselect as All.  Floats are exact rationals        *)
(* <<n, d>> with d > 0 in lowest terms; <<0, 0>> is NaN / pd.NA and        *)
(* <<1, 0>>, <<-1, 0>> are +inf, -inf.                                     *)
(*                                                                         *)
(* Spec follows one view over extracts of up to MaxRows rows; Session      *)
(* follows a whole process, with view switches, over one-row extracts.     *)
(* Both run the same script; the loaders go through st.cache_data.         *)
(***************************************************************************)
EXTENDS Integers, Sequences, FiniteSets, TLC

VARIABLES
    actualsFile,      \* rows of data/Actuals.xlsx
    forecastFile,     \* rows of data/Roster_Data.xlsx
    weekFile,         \* rows of the 4-week-out extract
    wagesFile,        \* rows of data/wages raw data.xlsx
    selected_tab,     \* the sidebar radio: which view is rendered
    time_granularity, \* the Wages radio: "Weekly" or "Daily"
    pc,               \* position of the running script
    actuals_weekly,   \* Accuracy Overview: aggregated actuals
    forecast_weekly,  \* Accuracy Overview: aggregated forecast
    merged,           \* Accuracy Overview: the inner join
    df,               \* the table being filtered (filtered_df, df_week, wages_df)
    field,            \* the column of the filter applied last
    sel,              \* the selection of the filter applied last
    weekly,           \* metric table (Overview weekly / Weekly Analysis KPI table)
    weekly_plot,      \* Weekly Analysis plot table
    aggregated_wages, \* Wages Analysis aggregated table
    cards,            \* metric cards rendered by this run, in order
    messages,         \* st.info / st.error / st.warning messages of this run
    unreadable,       \* the data files that are missing or cannot be read
    cache,            \* st.cache_data: the value each loader has returned, if any
    reads,            \* pd.read_excel calls made on each data file
    dtypes,           \* dtype of the year and week columns of the tables of this run
    heatmap           \* Wages variance heatmap: its colour-scale limit and caption

vars == <<actualsFile, forecastFile, weekFile, wagesFile, selected_tab,
          time_granularity, pc, actuals_weekly, forecast_weekly, merged, df,
          field, sel, weekly, weekly_plot, aggregated_wages, cards, messages,
          unreadable, cache, reads, dtypes, heatmap>>

files == <<actualsFile, forecastFile, weekFile, wagesFile, unreadable>>
widgets == <<selected_tab, time_granularity>>
session == <<cache, reads>>

-----------------------------------------------------------------------------
(* Bounds and encodings *)

MaxRows == 2          \* rows per extract
MaxReads == 2         \* pd.read_excel calls followed on one file

NA == -1              \* a missing cell (NaN)
All == 0              \* the "All" option of a multiselect

-----------------------------------------------------------------------------
(* Exact arithmetic standing for float64 / pd.NA arithmetic *)

Abs(x) == IF x < 0 THEN 0 - x ELSE x

RECURSIVE GCD(_, _)
GCD(a, b) == IF b = 0 THEN a ELSE GCD(b, a % b)

NaN == <<0, 0>>

Sign(n) == IF n > 0 THEN 1 ELSE IF n < 0 THEN 0 - 1 ELSE 0

\* n / d as a float: lowest terms, positive denominator; x/0 is nan or +-inf
Rat(n, d) ==
    IF d = 0 THEN <<Sign(n), 0>>
    ELSE LET g == GCD(Abs(n), Abs(d))
             s == IF d < 0 THEN 0 - 1 ELSE 1
         IN  <<(s * n) \div g, (s * d) \div g>>

IsNaN(x) == x = NaN
IsFinite(x) == x[2] # 0

RatAdd(a, b) ==
    IF IsNaN(a) \/ IsNaN(b) THEN NaN
    ELSE IF ~IsFinite(a) /\ ~IsFinite(b) THEN (IF a = b THEN a ELSE NaN)
    ELSE IF ~IsFinite(a) THEN a
    ELSE IF ~IsFinite(b) THEN b
    ELSE Rat(a[1] * b[2] + b[1] * a[2], a[2] * b[2])

RatNeg(a) == <<0 - a[1], a[2]>>

RatSub(a, b) == RatAdd(a, RatNeg(b))

RatMul(a, b) ==
    IF IsNaN(a) \/ IsNaN(b) THEN NaN
    ELSE IF ~IsFinite(a) \/ ~IsFinite(b) THEN <<Sign(a[1]) * Sign(b[1]), 0>>
    ELSE Rat(a[1] * b[1], a[2] * b[2])

RatDiv(a, b) ==
    IF IsNaN(a) \/ IsNaN(b) THEN NaN
    ELSE IF ~IsFinite(b) THEN (IF IsFinite(a) THEN Rat(0, 1) ELSE NaN)
    ELSE IF ~IsFinite(a) THEN <<a[1] * (IF b[1] < 0 THEN 0 - 1 ELSE 1), 0>>
    ELSE Rat(a[1] * b[2], a[2] * b[1])

\* a < b on non-NaN values (any comparison with NaN is False)
RatLess(a, b) ==
    IF IsNaN(a) \/ IsNaN(b) THEN FALSE
    ELSE IF ~IsFinite(a) THEN a[1] < 0 /\ a # b
    ELSE IF ~IsFinite(b) THEN b[1] > 0
    ELSE a[1] * b[2] < b[1] * a[2]

\* Series.replace(0, pd.NA) on one cell
ReplaceZeroNA(x) == IF x = 0 THEN NaN ELSE Rat(x, 1)

\* mutant: an undefined cell is filled with 100 whatever the fill value
FillNa_Perfect(x, v) == IF IsNaN(x) THEN Rat(100, 1) ELSE x

\* Series.fillna(v) on one cell
FillNa(x, v) == IF IsNaN(x) THEN v ELSE x

\* Series.clip(lo, hi) on one cell (NaN stays NaN)
Clip(x, lo, hi) ==
    IF RatLess(x, Rat(lo, 1)) THEN Rat(lo, 1)
    ELSE IF RatLess(Rat(hi, 1), x) THEN Rat(hi, 1)
    ELSE x

RECURSIVE SumInts(_)
SumInts(s) == IF s = <<>> THEN 0 ELSE Head(s) + SumInts(Tail(s))

RECURSIVE SumRats(_)
SumRats(s) == IF s = <<>> THEN Rat(0, 1) ELSE RatAdd(Head(s), SumRats(Tail(s)))

\* Series.mean(): nan on an empty series
MeanInts(s) == Rat(SumInts(s), Len(s))

-----------------------------------------------------------------------------
(* Generic table helpers *)

Rows(T) == {T[i] : i \in DOMAIN T}

RECURSIVE SelectSeq2(_, _)
\* rows of T at the positions in P, in table order
SelectSeq2(T, P) ==
    IF T = <<>> THEN <<>>
    ELSE LET rest == SelectSeq2(SubSeq(T, 1, Len(T) - 1), P)
         IN  IF Len(T) \in P THEN Append(rest, T[Len(T)]) ELSE rest

HasNA(key) == \E i \in DOMAIN key : key[i] = NA

RECURSIVE LexLess(_, _)
LexLess(a, b) ==
    IF a = <<>> \/ b = <<>> THEN FALSE
    ELSE IF Head(a) < Head(b) THEN TRUE
    ELSE IF Head(a) > Head(b) THEN FALSE
    ELSE LexLess(Tail(a), Tail(b))

RECURSIVE SortKeys(_)
\* the keys of a groupby in its output order (sort=True)
SortKeys(S) ==
    IF S = {} THEN <<>>
    ELSE LET m == CHOOSE k \in S : \A j \in S \ {k} : LexLess(k, j)
         IN  <<m>> \o SortKeys(S \ {m})

RECURSIVE SortInts(_)
\* sorted(series.unique())
SortInts(S) ==
    IF S = {} THEN <<>>
    ELSE LET m == CHOOSE k \in S : \A j \in S : k <= j
         IN  <<m>> \o SortInts(S \ {m})

\* groupby(...) keeps a row only when no key cell is missing (dropna=True)
GroupKeys(keys) == SortKeys({k \in keys : ~HasNA(k)})

Column(T, c) == [i \in DOMAIN T |-> T[i][c]]

Key(row, cols) == [j \in DOMAIN cols |-> row[cols[j]]]

Range(s) == {s[j] : j \in DOMAIN s}

\* df.groupby(cols, as_index=False).agg({m: "sum" for m in sums, m: "mean" for m in means})
GroupByAgg(T, cols, sums, means) ==
    LET ks == GroupKeys({Key(T[i], cols) : i \in DOMAIN T})
        Pos(c) == CHOOSE j \in DOMAIN cols : cols[j] = c
        Group(k) == SelectSeq2(T, {i \in DOMAIN T : Key(T[i], cols) = k})
    IN  [n \in 1..Len(ks) |->
            [c \in Range(cols) \cup sums \cup means |->
                IF c \in Range(cols) THEN ks[n][Pos(c)]
                ELSE IF c \in sums THEN SumInts(Column(Group(ks[n]), c))
                ELSE MeanInts(Column(Group(ks[n]), c))]]

\* df.rename(columns=map): map is a function from old names to new names
Rename(T, map) ==
    LET New(c) == IF c \in DOMAIN map THEN map[c] ELSE c
    IN  [i \in DOMAIN T |->
            [c \in {New(o) : o \in DOMAIN T[i]} |->
                T[i][CHOOSE o \in DOMAIN T[i] : New(o) = c]]]

\* series.astype(int) raises on a missing cell; the cells of the model hold
\* integral values, which the cast keeps
CanCastInt(T, c) == \A i \in DOMAIN T : T[i][c] # NA

\* df[df[c].isin(values)]
Isin(T, c, values) == SelectSeq2(T, {i \in DOMAIN T : T[i][c] \in values})

\* mutant: the table passes through only when "All" is the whole selection
MultiselectFilter_OnlyAll(T, c, selection) ==
    IF selection = {All} THEN T ELSE Isin(T, c, selection)

\* if "All" not in selection: df = df[df[c].isin(selection)]
MultiselectFilter(T, c, selection) ==
    IF All \in selection THEN T ELSE Isin(T, c, selection)

\* series.unique() and series.dropna().unique()
Unique(T, c) == {T[i][c] : i \in DOMAIN T}
UniqueDropNa(T, c) == Unique(T, c) \ {NA}

RECURSIVE Merge_Left(_, _, _)
\* mutant: how="left", every left row kept, a missing forecast where no key matches
Merge_Left(L, R, cols) ==
    IF L = <<>> THEN <<>>
    ELSE LET l == L[Len(L)]
             hits == SelectSeq2(R, {j \in DOMAIN R : Key(R[j], cols) = Key(l, cols)})
         IN  Merge_Left(SubSeq(L, 1, Len(L) - 1), R, cols)
                 \o (IF hits = <<>> THEN <<l @@ ("Forecast Kg" :> NA)>>
                     ELSE [j \in DOMAIN hits |-> hits[j] @@ l])

\* pd.merge(L, R, on=cols, how="inner"): every pair of rows with equal keys,
\* in the order of the left table
RECURSIVE Merge(_, _, _)
Merge(L, R, cols) ==
    IF L = <<>> THEN <<>>
    ELSE LET l == L[Len(L)]
             hits == SelectSeq2(R, {j \in DOMAIN R : Key(R[j], cols) = Key(l, cols)})
         IN  Merge(SubSeq(L, 1, Len(L) - 1), R, cols)
                 \o [j \in DOMAIN hits |-> hits[j] @@ l]

-----------------------------------------------------------------------------
(* Metric calculator *)

\* mutant: the clip to [0, 100] left out
ForecastAccuracy_NoClip(absDisparity, actual) ==
    FillNa(RatMul(RatSub(Rat(1, 1),
                         RatDiv(Rat(absDisparity, 1), ReplaceZeroNA(actual))),
                  Rat(100, 1)),
           Rat(0, 1))

\* (1 - abs_disparity / actual.replace(0, pd.NA)) * 100, then fillna(0).clip(0, 100)
ForecastAccuracy(absDisparity, actual) ==
    Clip(FillNa(RatMul(RatSub(Rat(1, 1),
                              RatDiv(Rat(absDisparity, 1), ReplaceZeroNA(actual))),
                       Rat(100, 1)),
                Rat(0, 1)),
         0, 100)

\* mutant: the disparity taken as actual - forecast
WithMetrics_ActualMinusForecast(T, actualCol, forecastCol) ==
    [i \in DOMAIN T |->
        LET d == T[i][actualCol] - T[i][forecastCol]
        IN  T[i] @@ ("Disparity Kg" :> d) @@ ("Abs_Disparity_Kg" :> Abs(d))
                 @@ ("Forecast Accuracy" :> ForecastAccuracy(Abs(d), T[i][actualCol]))]

\* the three derived columns of a metric table
WithMetrics(T, actualCol, forecastCol) ==
    [i \in DOMAIN T |->
        LET d == T[i][forecastCol] - T[i][actualCol]
        IN  T[i] @@ ("Disparity Kg" :> d) @@ ("Abs_Disparity_Kg" :> Abs(d))
                 @@ ("Forecast Accuracy" :> ForecastAccuracy(Abs(d), T[i][actualCol]))]

\* mutant: the accuracies weighted by the forecast volume
WeightedAccuracy_ForecastWeights(T, w) ==
    RatDiv(SumRats([i \in DOMAIN T |->
                       RatMul(T[i]["Forecast Accuracy"], Rat(T[i]["Forecast Kg"], 1))]),
           Rat(SumInts(Column(T, "Forecast Kg")), 1))

\* (df["Forecast Accuracy"] * df[w]).sum() / df[w].sum()
WeightedAccuracy(T, w) ==
    RatDiv(SumRats([i \in DOMAIN T |-> RatMul(T[i]["Forecast Accuracy"], Rat(T[i][w], 1))]),
           Rat(SumInts(Column(T, w)), 1))

None == <<"None">>

compute_kpis(T) ==
    IF T = <<>> \/ SumInts(Column(T, "Actual Kg")) = 0
    THEN <<None, None, None>>
    ELSE <<WeightedAccuracy(T, "Actual Kg"),
           MeanInts(Column(T, "Abs_Disparity_Kg")),
           Rat(SumInts(Column(T, "Abs_Disparity_Kg")), 1)>>

RECURSIVE BitLen(_)
\* the number of binary digits of a whole number
BitLen(n) == IF n = 0 THEN 0 ELSE 1 + BitLen(n \div 2)

RECURSIVE RoundBits(_, _, _, _)
\* Binary long division of r / d (0 <= r < d) for k more digits of the
\* significand, then round to nearest, ties to even: -1, 0 or 1 as the
\* binary64 is below, at or above the exact quotient; last is the digit before
RoundBits(r, d, k, last) ==
    IF r = 0 THEN 0
    ELSE IF k = 0
    THEN IF 2 * r < d THEN 0 - 1
         ELSE IF 2 * r > d THEN 1
         ELSE IF last = 1 THEN 1 ELSE 0 - 1
    ELSE LET bit == IF 2 * r >= d THEN 1 ELSE 0
         IN  RoundBits(2 * r - bit * d, d, k - 1, bit)

RECURSIVE LeadBits(_, _)
\* a quotient below 1: the zeros before its first digit 1 are not part of
\* the 53 digits of the significand
LeadBits(r, d) ==
    IF 2 * r < d THEN LeadBits(2 * r, d)
    ELSE RoundBits(2 * r - d, d, 52, 1)

\* the binary64 that stands for n / d (n >= 0, d > 0) against n / d itself:
\* -1 when it is below, 0 when n / d is a binary64, 1 when it is above
Float64Side(n, d) ==
    LET whole == n \div d
        r == n % d
    IN  IF r = 0 THEN 0
        ELSE IF whole = 0 THEN LeadBits(r, d)
        ELSE RoundBits(r, d, 53 - BitLen(whole), whole % 2)

(* binary64 arithmetic.  A float that is not negative is <<bits, e>>: the
   binary digits of a whole number, most significant first, of at most 53
   digits, and the power of two it is multiplied by.  Every operation gives the
   exact result rounded to nearest, ties to even. *)

RECURSIVE BitsOf(_)
\* the binary digits of a whole number, most significant first
BitsOf(n) == IF n = 0 THEN <<>> ELSE Append(BitsOf(n \div 2), n % 2)

Zeros(k) == [i \in 1..k |-> 0]

\* the digits without the zeros in front
Strip(b) ==
    IF \A i \in DOMAIN b : b[i] = 0 THEN <<>>
    ELSE LET k == CHOOSE i \in DOMAIN b : b[i] = 1 /\ \A j \in 1..(i - 1) : b[j] = 0
         IN  SubSeq(b, k, Len(b))

PadLeft(b, len) == Zeros(len - Len(b)) \o b

\* one added to a whole number given by its digits
IncBits(b) ==
    IF \A i \in DOMAIN b : b[i] = 1 THEN <<1>> \o Zeros(Len(b))
    ELSE LET k == CHOOSE i \in DOMAIN b : b[i] = 0 /\ \A j \in (i + 1)..Len(b) : b[j] = 1
         IN  SubSeq(b, 1, k - 1) \o <<1>> \o Zeros(Len(b) - k)

\* bits * 2^e, and something more below it when sticky, as a binary64
Round64(bits, e, sticky) ==
    LET b == Strip(bits)
        n == Len(b)
    IN  IF n <= 53 THEN <<b, e>>
        ELSE LET keep == SubSeq(b, 1, 53)
                 rest == sticky \/ \E i \in 55..n : b[i] = 1
                 up == b[54] = 1 /\ (rest \/ keep[53] = 1)
                 kept == IF up THEN IncBits(keep) ELSE keep
             IN  IF Len(kept) = 54 THEN <<SubSeq(kept, 1, 53), e + n - 52>>
                 ELSE <<kept, e + n - 53>>

Float64Zero == <<<<>>, 0>>

Float64Of(n) == <<BitsOf(n), 0>>

\* the digits are worked on eight at a time
Byte(b, i) ==
    128 * b[i] + 64 * b[i + 1] + 32 * b[i + 2] + 16 * b[i + 3]
    + 8 * b[i + 4] + 4 * b[i + 5] + 2 * b[i + 6] + b[i + 7]

ByteBits(v) == [i \in 1..8 |-> (v \div 2^(8 - i)) % 2]

\* zeros in front, to a length that is a multiple of eight
PadBytes(b) == Zeros((8 - (Len(b) % 8)) % 8) \o b

RECURSIVE DivBits(_, _, _, _, _)
\* long division of the digits b by n from digit i on: <<quotient, remainder>>
DivBits(b, n, i, rem, quot) ==
    IF i > Len(b) THEN <<quot, rem>>
    ELSE LET r == 256 * rem + Byte(b, i)
         IN  DivBits(b, n, i + 8, r % n, quot \o ByteBits(r \div n))

RECURSIVE MulBits(_, _, _, _, _)
\* the digits b times n, from the last eight digits, at i, back, with the carry
MulBits(b, n, i, carry, acc) ==
    IF i < 1 THEN BitsOf(carry) \o acc
    ELSE LET d == Byte(b, i) * n + carry
         IN  MulBits(b, n, i - 8, d \div 256, ByteBits(d % 256) \o acc)

RECURSIVE AddBits(_, _, _, _, _)
\* a + b for digits of one length
AddBits(a, b, i, carry, acc) ==
    IF i < 1 THEN <<carry>> \o acc
    ELSE LET d == Byte(a, i) + Byte(b, i) + carry
         IN  AddBits(a, b, i - 8, d \div 256, ByteBits(d % 256) \o acc)

RECURSIVE SubBits(_, _, _, _, _)
\* a - b for digits of one length, a not below b
SubBits(a, b, i, borrow, acc) ==
    IF i < 1 THEN acc
    ELSE LET d == Byte(a, i) - Byte(b, i) - borrow
         IN  SubBits(a, b, i - 8, IF d < 0 THEN 1 ELSE 0,
                     ByteBits(IF d < 0 THEN d + 256 ELSE d) \o acc)

\* the whole number of digits b, times n
Times(b, n) ==
    LET p == PadBytes(b)
    IN  MulBits(p, n, Len(p) - 7, 0, <<>>)

\* -1, 0 or 1 as the whole number of digits a is below, at or above that of b
CmpBits(a, b) ==
    LET x == Strip(a)
        y == Strip(b)
    IN  IF Len(x) # Len(y) THEN (IF Len(x) < Len(y) THEN 0 - 1 ELSE 1)
        ELSE IF x = y THEN 0
        ELSE LET k == CHOOSE i \in DOMAIN x : x[i] # y[i] /\ \A j \in 1..(i - 1) : x[j] = y[j]
             IN  IF x[k] < y[k] THEN 0 - 1 ELSE 1

\* the digits of f and g at the lower of their two powers of two, one length
Aligned(f, g) ==
    LET e == IF f[2] < g[2] THEN f[2] ELSE g[2]
        a == f[1] \o Zeros(f[2] - e)
        b == g[1] \o Zeros(g[2] - e)
        len == IF Len(a) < Len(b) THEN Len(b) ELSE Len(a)
    IN  <<PadBytes(PadLeft(a, len)), PadBytes(PadLeft(b, len)), e>>

\* f / n for a whole number n > 0
Float64Div(f, n) ==
    IF f[1] = <<>> THEN Float64Zero
    ELSE LET shift == 55 + BitLen(n)
             d == DivBits(PadBytes(f[1] \o Zeros(shift)), n, 1, 0, <<>>)
         IN  Round64(d[1], f[2] - shift, d[2] # 0)

\* f * n for a whole number n
Float64Mul(f, n) ==
    IF f[1] = <<>> \/ n = 0 THEN Float64Zero
    ELSE Round64(Times(f[1], n), f[2], FALSE)

Float64Add(f, g) ==
    IF f[1] = <<>> THEN g
    ELSE IF g[1] = <<>> THEN f
    ELSE LET a == Aligned(f, g)
         IN  Round64(AddBits(a[1], a[2], Len(a[1]) - 7, 0, <<>>), a[3], FALSE)

\* f - g, f not below g
Float64Sub(f, g) ==
    IF g[1] = <<>> THEN f
    ELSE LET a == Aligned(f, g)
         IN  Round64(SubBits(a[1], a[2], Len(a[1]) - 7, 0, <<>>), a[3], FALSE)

RECURSIVE Float64Sum(_)
\* Series.sum(): the values added one after the other
Float64Sum(s) ==
    IF s = <<>> THEN Float64Zero
    ELSE Float64Add(Float64Sum(SubSeq(s, 1, Len(s) - 1)), s[Len(s)])

RECURSIVE IntOf(_)
\* the whole number of the digits b
IntOf(b) == IF b = <<>> THEN 0 ELSE 2 * IntOf(SubSeq(b, 1, Len(b) - 1)) + b[Len(b)]

\* the digits without the zeros at the end
StripRight(b) ==
    IF \A i \in DOMAIN b : b[i] = 0 THEN <<>>
    ELSE LET k == CHOOSE i \in DOMAIN b : b[i] = 1 /\ \A j \in (i + 1)..Len(b) : b[j] = 0
         IN  SubSeq(b, 1, k)

\* a - b for whole numbers given by their digits, a not below b
MinusBits(a, b) ==
    LET len == IF Len(a) < Len(b) THEN Len(b) ELSE Len(a)
        x == PadBytes(PadLeft(a, len))
        y == PadBytes(PadLeft(b, len))
    IN  Strip(SubBits(x, y, Len(x) - 7, 0, <<>>))

\* one digit of a long division by the whole number of the digits b: r is the
\* remainder so far with the next digit of the dividend; <<quotient, remainder>>
DivStep(r, b, quot) ==
    IF CmpBits(r, b) >= 0 THEN <<Append(quot, 1), MinusBits(r, b)>>
    ELSE <<Append(quot, 0), r>>

RECURSIVE DivSteps(_, _, _, _)
\* the long division of the digits d by b, carried on to digit j
DivSteps(d, b, j, st) ==
    IF Len(st[1]) >= j THEN st
    ELSE DivSteps(d, b, j, DivStep(Strip(Append(st[2], d[Len(st[1]) + 1])), b, st[1]))

RECURSIVE DivChunks(_, _, _)
\* the long division of the digits d by b, some digits at a time
DivChunks(d, b, st) ==
    IF Len(st[1]) >= Len(d) THEN st
    ELSE DivChunks(d, b, DivSteps(d, b, IF Len(st[1]) + 28 > Len(d) THEN Len(d)
                                        ELSE Len(st[1]) + 28, st))

\* f / g for two floats, g not zero
Float64Quot(f, g) ==
    IF f[1] = <<>> THEN Float64Zero
    ELSE LET b == StripRight(g[1])
             e == g[2] + Len(g[1]) - Len(b)
         IN  IF Len(b) <= 22
             THEN LET q == Float64Div(f, IntOf(b))
                  IN  <<q[1], q[2] - e>>
             ELSE LET shift == 56 + Len(b) - Len(f[1])
                      s == DivChunks(f[1] \o Zeros(shift), b, <<<<>>, <<>>>>)
                  IN  Round64(s[1], f[2] - shift - e, s[2] # <<>>)

\* -1, 0 or 1 as the float f is below, at or above the float g
Float64Cmp(f, g) ==
    LET a == Aligned(f, g)
    IN  CmpBits(a[1], a[2])

\* the whole part of a float
Float64Floor(f) ==
    IF f[2] >= 0 THEN IntOf(Strip(f[1] \o Zeros(f[2])))
    ELSE IF Len(f[1]) + f[2] <= 0 THEN 0
    ELSE IntOf(Strip(SubSeq(f[1], 1, Len(f[1]) + f[2])))

(* A float of either sign is [sign, mag]: 1 or -1, and the float without it. *)

Signed(sign, mag) == [sign |-> sign, mag |-> mag]

\* the float of a group mean, sum / count: the binary64 nearest to x
Float64OfRat(x) ==
    Signed(IF x[1] < 0 THEN 0 - 1 ELSE 1, Float64Div(Float64Of(Abs(x[1])), x[2]))

Float64Plus(f, g) ==
    IF f.sign = g.sign THEN Signed(f.sign, Float64Add(f.mag, g.mag))
    ELSE LET c == Float64Cmp(f.mag, g.mag)
         IN  IF c = 0 THEN Signed(1, Float64Zero)
             ELSE IF c > 0 THEN Signed(f.sign, Float64Sub(f.mag, g.mag))
             ELSE Signed(g.sign, Float64Sub(g.mag, f.mag))

Float64Minus(f, g) == Float64Plus(f, Signed(0 - g.sign, g.mag))

Float64Less(f, g) ==
    IF f.mag[1] = <<>> /\ g.mag[1] = <<>> THEN FALSE
    ELSE IF f.sign # g.sign THEN f.sign < g.sign
    ELSE IF f.sign = 1 THEN Float64Cmp(f.mag, g.mag) < 0
    ELSE Float64Cmp(f.mag, g.mag) > 0

RECURSIVE Float64Total(_)
\* Series.sum() of floats of either sign, added one after the other
Float64Total(s) ==
    IF s = <<>> THEN Signed(1, Float64Zero)
    ELSE Float64Plus(Float64Total(SubSeq(s, 1, Len(s) - 1)), s[Len(s)])

\* Series.mean() of the floats s, none of them missing: the sum by the count
Float64Mean(s) ==
    LET total == Float64Total(s)
    IN  Signed(total.sign, Float64Div(total.mag, Len(s)))

\* Series.min() and Series.max() of the floats s
Float64Min(s) == CHOOSE m \in Range(s) : \A x \in Range(s) : ~Float64Less(x, m)
Float64Max(s) == CHOOSE m \in Range(s) : \A x \in Range(s) : ~Float64Less(m, x)

\* a float as Python prints it at `scale` units per 1 (f"{x:.1f}" is scale
\* 10): the exact value of the float, rounded half to even
FormatFloat(f, scale) ==
    LET b == Times(f.mag[1], scale)
        k == 0 - f.mag[2]
        len == Len(b)
        whole == IF k <= 0 THEN IntOf(Strip(b \o Zeros(0 - k)))
                 ELSE IF len <= k THEN 0
                 ELSE IntOf(Strip(SubSeq(b, 1, len - k)))
        frac == IF k <= 0 THEN <<>>
                ELSE IF len < k THEN PadLeft(b, k)
                ELSE SubSeq(b, len - k + 1, len)
        half == frac # <<>> /\ frac[1] = 1
        more == \E i \in 2..Len(frac) : frac[i] = 1
        up == half /\ (more \/ whole % 2 = 1)
    IN  Rat(f.sign * (IF up THEN whole + 1 ELSE whole), scale)

\* lines 203-214, 533-545 in binary64:
\* (1 - abs_disparity / actual.replace(0, pd.NA)) * 100, then fillna(0).clip(0, 100)
Float64Accuracy(absDisparity, actual) ==
    IF actual = 0 \/ absDisparity >= actual THEN Float64Zero
    ELSE Float64Mul(Float64Sub(Float64Of(1), Float64Div(Float64Of(absDisparity), actual)),
                    100)

\* lines 25-28, 262-265 in binary64:
\* (df["Forecast Accuracy"] * df[w]).sum() / df[w].sum()
Float64Weighted(T, w) ==
    Float64Div(Float64Sum([i \in DOMAIN T |->
                    Float64Mul(Float64Accuracy(T[i]["Abs_Disparity_Kg"], T[i][w]), T[i][w])]),
               SumInts(Column(T, w)))

\* a float that lies at `side` of x (below -1, at 0, above 1), rounded to
\* `scale` units per 1 as Python prints it: away from a decimal tie the digits
\* are those of x; at a tie the float lies below or above it, and only a float
\* that is the tie itself (0.5, 12.5) goes to the even digit
RoundAt(x, side, scale) ==
    LET n == x[1] * scale
        q == n \div x[2]
        r == n - q * x[2]
        up == \/ 2 * r > x[2]
              \/ 2 * r = x[2] /\ (side > 0 \/ (side = 0 /\ q % 2 = 1))
    IN  Rat(IF up THEN q + 1 ELSE q, scale)

\* f"{x:.0f}", f"{x:,.1f}", f"{x:.2f}" of a float that is one division, or a
\* mean, away from whole numbers: it is the binary64 nearest to x
\* (350.0 / 1000 is 0.34999999999999997 and prints 0.3).  nan prints nan.
Format(x, scale) ==
    IF ~IsFinite(x) THEN x
    ELSE RoundAt(x, Sign(x[1]) * Float64Side(Abs(x[1]), x[2]), scale)

\* lines 271, 571: f"{weighted_accuracy:.0f}" of the float the code computes
\* for the table T, whose exact value is x
FormatWeighted(x, T, w) ==
    IF ~IsFinite(x) THEN x
    ELSE FormatFloat(Signed(1, Float64Weighted(T, w)), 1)

Card(section, label, value) == [section |-> section, label |-> label, value |-> value]

-----------------------------------------------------------------------------
(* The extracts *)

ActualRow(plant, variety, week, yield) ==
    ("Plant" :> plant) @@ ("Product Category" :> 1) @@ ("Product Variety" :> variety)
    @@ ("Location" :> 1) @@ ("Costa Fiscal Year" :> 2024) @@ ("Fiscal Week No" :> week)
    @@ ("Yield Kg" :> yield)

ForecastRow(plant, variety, week, kg) ==
    ("Plant" :> plant) @@ ("Product Category" :> 1) @@ ("Product Variety" :> variety)
    @@ ("Location" :> 1) @@ ("Fiscal Year" :> 2024) @@ ("Fiscal Week" :> week)
    @@ ("kg" :> kg)

\* the rows an Actuals.xlsx of the model is made of
ActualDomain ==
    << ActualRow(1, 1, 1, 600), ActualRow(1, 1, 1, 400), ActualRow(1, 1, 2, 0),
       ActualRow(2, 1, 1, 600), ActualRow(NA, 1, 1, 400), ActualRow(1, 2, 1, 400) >>

\* the rows a Roster_Data.xlsx of the model is made of
ForecastDomain ==
    << ForecastRow(1, 1, 1, 1100), [ForecastRow(1, 1, 1, 600) EXCEPT !["Fiscal Year"] = NA],
       ForecastRow(1, 1, 2, 5), ForecastRow(1, 1, 2, 0), ForecastRow(2, 1, 1, 600),
       ForecastRow(1, 2, 1, 0) >>

WeekRow(season, plant, category, weeksOut, week, actual, forecast) ==
    ("Season" :> season) @@ ("Plant" :> plant) @@ ("Product Category" :> category)
    @@ ("Year" :> 2024) @@ ("Weeks_out" :> weeksOut) @@ ("As at Fiscal Week" :> week)
    @@ ("Actual" :> actual) @@ ("Forecast" :> forecast)

\* the rows a week-out extract of the model is made of
WeekDomain ==
    << WeekRow(1, 1, 1, 1, 1, 1000, 1100), WeekRow(1, 1, 1, 1, 1, 0, 5),
       WeekRow(1, 2, 1, 2, 1, 0, 0), WeekRow(NA, 1, 1, 1, 1, 600, 600),
       WeekRow(1, 1, 2, NA, 1, 400, 600), WeekRow(2, 1, 1, 1, 2, 600, 0),
       WeekRow(1, 1, 1, 1, NA, 400, 400), WeekRow(1, 2, 2, 1, 1, 400, 1100),
       WeekRow(2, 2, 1, 2, 2, 600, 600), WeekRow(1, 1, 1, 1, 1, 600, 1100) >>

\* (the picker column of the file is spelt with a dash, U+2013, at lines 714
\* and 720; the model writes it with a hyphen)
WagesRow(year, week, date, plant, variety, picker, total, ea, yield) ==
    ("Costa Fiscal Year" :> year) @@ ("Fiscal Week No" :> week) @@ ("Pick Date" :> date)
    @@ ("Plant" :> plant) @@ ("Product Category" :> 1) @@ ("Product Variety" :> variety)
    @@ ("Location" :> 1)
    @@ ("Cost Per Hour - Picker Cost (Excl Ancillary Costs)" :> picker)
    @@ ("Cost Per Hour - Total Harvest Cost" :> total)
    @@ ("EAAverageCompetentRate" :> ea) @@ ("Yield Kg" :> yield)

\* the rows a wages extract of the model is made of
WagesDomain ==
    << WagesRow(2024, 1, 1, 1, 1, 30, 40, 25, 1000), WagesRow(2024, 1, 2, 1, 1, 28, 30, 5, 500),
       WagesRow(2025, 2, 3, 2, 2, 30, 35, 0, 600), WagesRow(2024, NA, 1, 1, 1, 30, 40, 25, 400),
       WagesRow(2024, 1, 1, NA, 1, 25, 30, 20, 400), WagesRow(2024, 1, 1, 1, 1, 0, 0, 0, 0),
       WagesRow(2025, 1, 2, 2, 1, 29, 50, 80, 600), WagesRow(2024, 2, 3, 1, 2, 20, 20, 20, 0) >>

\* an extract is any list of at most MaxRows rows of its domain; the row
\* order of an extract is taken in the order of the domain
Extracts(D) ==
    LET Index == UNION {[1..k -> DOMAIN D] : k \in 0..MaxRows}
    IN  {[i \in DOMAIN ix |-> D[ix[i]]] :
            ix \in {x \in Index : \A i \in 1..(Len(x) - 1) : x[i] <= x[i + 1]}}

Tabs == {"Accuracy Overview", "Weekly Analysis", "Wages Analysis"}

-----------------------------------------------------------------------------
(* The script *)

JoinKeys == <<"Plant", "Product Category", "Product Variety", "Location",
              "Fiscal Year", "Fiscal Week">>

ActualKeys == <<"Plant", "Product Category", "Product Variety", "Location",
                "Costa Fiscal Year", "Fiscal Week No">>

\* no heatmap drawn (yet): no warning, no scale, no cell, no caption
NoHeatmap == [warning |-> "", scale_limit |-> None, colours |-> <<>>, caption |-> <<>>]

\* the data files, by the loader that reads them, in the order it reads them
LoaderFiles ==
    ("load_actuals_and_roster_data" :> <<"Actuals.xlsx", "Roster_Data.xlsx">>)
    @@ ("load_week_out_with_season"
           :> <<"4-week-out packed forecast with Fiscal_Week_and_Season.xlsx">>)
    @@ ("load_wages_data" :> <<"wages raw data.xlsx">>)

Loaders == DOMAIN LoaderFiles

Files == UNION {Range(LoaderFiles[l]) : l \in Loaders}

\* the rows of a data file
FileRows(f) ==
    CASE f = "Actuals.xlsx" -> actualsFile
      [] f = "Roster_Data.xlsx" -> forecastFile
      [] f = "wages raw data.xlsx" -> wagesFile
      [] OTHER -> weekFile

\* the files a loader calls pd.read_excel on when its body runs: the call on
\* a missing or unreadable file raises, and the files after it are not read
Attempted(l) ==
    LET fs == LoaderFiles[l]
        bad == {i \in DOMAIN fs : fs[i] \in unreadable}
    IN  IF bad = {} THEN fs
        ELSE SubSeq(fs, 1, CHOOSE i \in bad : \A j \in bad : i <= j)

\* the body of the loader raises
Fails(l) == \E f \in Range(LoaderFiles[l]) : f \in unreadable

\* the value a loader returns: the table of each file (the column names of
\* the model carry no surrounding blanks, so columns.str.strip() keeps them)
Loaded(l) == [i \in DOMAIN LoaderFiles[l] |-> FileRows(LoaderFiles[l][i])]

Cached(l) == cache[l] # <<>>

\* mutant: the loader runs its body on every call
CallLoader_NoCache(l) ==
    /\ \A f \in Range(Attempted(l)) : reads[f] < MaxReads
    /\ reads' = [f \in Files |->
                    IF f \in Range(Attempted(l)) THEN reads[f] + 1 ELSE reads[f]]
    /\ cache' = IF Fails(l) THEN cache ELSE [cache EXCEPT ![l] = <<Loaded(l)>>]

\* a call of a function under @st.cache_data: a cached value is returned
\* without running the body; otherwise the body runs, and its value is cached
\* unless it raises
CallLoader(l) ==
    IF Cached(l)
    THEN UNCHANGED <<cache, reads>>
    ELSE /\ \A f \in Range(Attempted(l)) : reads[f] < MaxReads
         /\ reads' = [f \in Files |->
                         IF f \in Range(Attempted(l)) THEN reads[f] + 1 ELSE reads[f]]
         /\ cache' = IF Fails(l) THEN cache ELSE [cache EXCEPT ![l] = <<Loaded(l)>>]

\* dtype pd.read_excel gives a column of whole numbers: int64, float64 when
\* a cell is missing, object when the sheet has no rows
RawDtype(T, c) ==
    IF T = <<>> THEN "object"
    ELSE IF \E i \in DOMAIN T : T[i][c] = NA THEN "float64"
    ELSE "int64"

NoRun ==
    /\ pc = "start"
    /\ actuals_weekly = <<>> /\ forecast_weekly = <<>> /\ merged = <<>>
    /\ df = <<>> /\ field = "" /\ sel = {}
    /\ weekly = <<>> /\ weekly_plot = <<>> /\ aggregated_wages = <<>>
    /\ cards = <<>> /\ messages = <<>>
    /\ dtypes = <<>> /\ heatmap = NoHeatmap

\* a process that has just started: nothing cached, nothing read
NoSession ==
    /\ cache = [l \in Loaders |-> <<>>]
    /\ reads = [f \in Files |-> 0]

\* a file that is missing or cannot be read has no rows to give
ExtractsOf(f, D) == IF f \in unreadable THEN {<<>>} ELSE Extracts(D)

\* One view is shown in a behaviour; the extracts of the other views are not
\* read and are empty, and the Wages radio is only drawn by the Wages view.
\* A file of the view may be missing or unreadable.
Init ==
    /\ NoRun /\ NoSession
    /\ \/ /\ selected_tab = "Accuracy Overview"
          /\ time_granularity = "Weekly"
          /\ unreadable \in SUBSET Range(LoaderFiles["load_actuals_and_roster_data"])
          /\ actualsFile \in ExtractsOf("Actuals.xlsx", ActualDomain)
          /\ forecastFile \in ExtractsOf("Roster_Data.xlsx", ForecastDomain)
          /\ weekFile = <<>> /\ wagesFile = <<>>
       \/ /\ selected_tab = "Weekly Analysis"
          /\ time_granularity = "Weekly"
          /\ unreadable \in SUBSET Range(LoaderFiles["load_week_out_with_season"])
          /\ weekFile \in ExtractsOf(LoaderFiles["load_week_out_with_season"][1], WeekDomain)
          /\ actualsFile = <<>> /\ forecastFile = <<>> /\ wagesFile = <<>>
       \/ /\ selected_tab = "Wages Analysis"
          /\ time_granularity \in {"Weekly", "Daily"}
          /\ unreadable \in SUBSET Range(LoaderFiles["load_wages_data"])
          /\ wagesFile \in ExtractsOf("wages raw data.xlsx", WagesDomain)
          /\ actualsFile = <<>> /\ forecastFile = <<>> /\ weekFile = <<>>

\* the extracts of the Accuracy Overview as the run holds them
actuals == cache["load_actuals_and_roster_data"][1][1]
forecast == cache["load_actuals_and_roster_data"][1][2]

\* an uncaught exception ends the run with a traceback
Raise ==
    /\ pc' = "error"
    /\ messages' = Append(messages, "exception")

\* lines 82-86: the cached load of the two extracts, in try / except
OvLoad ==
    /\ pc = "start" /\ selected_tab = "Accuracy Overview"
    /\ CallLoader("load_actuals_and_roster_data")
    /\ IF cache'["load_actuals_and_roster_data"] = <<>>
       THEN /\ messages' = Append(messages, "Error loading data")
            /\ pc' = "stopped"
            /\ UNCHANGED dtypes
       ELSE /\ UNCHANGED messages
            /\ pc' = "ov_loaded"
            /\ dtypes' =
                  LET a == cache'["load_actuals_and_roster_data"][1][1]
                      f == cache'["load_actuals_and_roster_data"][1][2]
                  IN  (<<"actuals", "Costa Fiscal Year">> :> RawDtype(a, "Costa Fiscal Year"))
                      @@ (<<"actuals", "Fiscal Week No">> :> RawDtype(a, "Fiscal Week No"))
                      @@ (<<"forecast", "Fiscal Year">> :> RawDtype(f, "Fiscal Year"))
                      @@ (<<"forecast", "Fiscal Week">> :> RawDtype(f, "Fiscal Week"))
    /\ UNCHANGED <<files, widgets, heatmap, actuals_weekly, forecast_weekly, merged, df,
                   field, sel, weekly, weekly_plot, aggregated_wages, cards>>

\* lines 91-117: weekly aggregation of both sides; the groupby has dropped
\* every row with a missing week, so the astype(int) of lines 116-117 cannot raise
OvWeeklyAggregation ==
    /\ pc = "ov_loaded"
    /\ actuals_weekly' =
          Rename(GroupByAgg(actuals, ActualKeys, {"Yield Kg"}, {}),
                 ("Costa Fiscal Year" :> "Fiscal Year") @@ ("Fiscal Week No" :> "Fiscal Week"))
    /\ forecast_weekly' =
          Rename(GroupByAgg(forecast, JoinKeys, {"kg"}, {}), ("kg" :> "Forecast Kg"))
    /\ dtypes' = (<<"actuals_weekly", "Fiscal Year">> :> dtypes[<<"actuals", "Costa Fiscal Year">>])
                  @@ (<<"actuals_weekly", "Fiscal Week">> :> "int64")
                  @@ (<<"forecast_weekly", "Fiscal Year">> :> dtypes[<<"forecast", "Fiscal Year">>])
                  @@ (<<"forecast_weekly", "Fiscal Week">> :> "int64")
    /\ pc' = "ov_aggregated"
    /\ UNCHANGED <<files, widgets, session, heatmap, merged, df, field, sel, weekly, weekly_plot,
                   aggregated_wages, cards, messages>>

\* the key columns that hold names (the cells of the model are codes of names)
NameColumns == {"Plant", "Product Category", "Product Variety", "Location"}

\* dtype pd.read_excel gives a column of names: object, also when some cell
\* is missing; float64 when every cell is missing (a column of nan)
NameDtype(T, c) ==
    IF T = <<>> THEN "object"
    ELSE IF \A i \in DOMAIN T : T[i][c] = NA THEN "float64"
    ELSE "object"

\* dtype of a key column of an aggregated table: the groupby keeps the dtype
\* the column was read with, and lines 116-117 make Fiscal Week int64
KeyDtype(T, c) ==
    IF c \in {"Fiscal Week", "Fiscal Week No"} THEN "int64"
    ELSE IF c \in NameColumns THEN NameDtype(T, c)
    ELSE RawDtype(T, c)

\* line 119: pd.merge compares the dtypes of each pair of key columns unless
\* exactly one of the two tables is empty; an object column against a
\* float64 column, both empty, is a ValueError ("You are trying to merge on
\* object and float64 columns"); an object column against an int64 column,
\* both empty, and int64 against float64, are accepted
MergeRaises ==
    /\ actuals_weekly = <<>> /\ forecast_weekly = <<>>
    /\ \E j \in DOMAIN JoinKeys :
          {KeyDtype(actuals, ActualKeys[j]), KeyDtype(forecast, JoinKeys[j])}
             = {"object", "float64"}

\* lines 119-135: the inner join, outside any try, and filtered_df = merged.copy()
OvMerge ==
    /\ pc = "ov_aggregated"
    /\ IF MergeRaises
       THEN Raise /\ UNCHANGED <<merged, df, dtypes>>
       ELSE /\ merged' = Merge(actuals_weekly, forecast_weekly, JoinKeys)
            /\ df' = merged'
            /\ dtypes' = (<<"merged", "Fiscal Year">> :> "int64")
                          @@ (<<"merged", "Fiscal Week">> :> "int64")
            /\ pc' = "ov_merged"
            /\ UNCHANGED messages
    /\ UNCHANGED <<files, widgets, session, heatmap, actuals_weekly, forecast_weekly, field, sel,
                   weekly, weekly_plot, aggregated_wages, cards>>

\* mutant: every filter applied to the joined table, not to the table filtered so far
SidebarFilter_FromMerged(from, to, c, options) ==
    /\ pc = from
    /\ \E s \in SUBSET ({All} \cup options) :
          /\ sel' = s
          /\ df' = MultiselectFilter(merged, c, s)
    /\ field' = c
    /\ pc' = to
    /\ UNCHANGED <<files, widgets, session, dtypes, heatmap, actuals_weekly, forecast_weekly, merged,
                   weekly, weekly_plot, aggregated_wages, cards, messages>>

\* one sidebar multiselect with the "All" option, and the filter that follows it
SidebarFilter(from, to, c, options) ==
    /\ pc = from
    /\ \E s \in SUBSET ({All} \cup options) :
          /\ sel' = s
          /\ df' = MultiselectFilter(df, c, s)
    /\ field' = c
    /\ pc' = to
    /\ UNCHANGED <<files, widgets, session, dtypes, heatmap, actuals_weekly, forecast_weekly, merged,
                   weekly, weekly_plot, aggregated_wages, cards, messages>>

\* lines 137-147
OvFilterFiscalYear ==
    SidebarFilter("ov_merged", "ov_fy", "Fiscal Year", Unique(df, "Fiscal Year"))

\* lines 149-159
OvFilterFiscalWeek ==
    SidebarFilter("ov_fy", "ov_fw", "Fiscal Week", Unique(df, "Fiscal Week"))

\* lines 161-171
OvFilterPlant ==
    SidebarFilter("ov_fw", "ov_plant", "Plant", Unique(df, "Plant"))

\* lines 173-186
OvFilterCategory ==
    SidebarFilter("ov_plant", "ov_category", "Product Category",
                  UniqueDropNa(df, "Product Category"))

\* mutant: the metric table kept at the grain of the join for the variety
MetricKeys_WithVariety == <<"Plant", "Product Category", "Product Variety", "Fiscal Week">>

\* line 193: the grouping columns of the metric table
MetricKeys == <<"Plant", "Product Category", "Fiscal Week">>

\* lines 191-214: the metric table of the view
OvWeeklyMetrics ==
    /\ pc = "ov_category"
    /\ weekly' = WithMetrics(
                    GroupByAgg(df, MetricKeys, {"Yield Kg", "Forecast Kg"}, {}),
                    "Yield Kg", "Forecast Kg")
    /\ pc' = "ov_metrics"
    /\ UNCHANGED <<files, widgets, session, dtypes, heatmap, actuals_weekly, forecast_weekly, merged, df,
                   field, sel, weekly_plot, aggregated_wages, cards, messages>>

\* lines 259-282: the KPI summary, computed and rendered with no guard.  The
\* Yield Kg column of an Actuals.xlsx without rows is of dtype object, down to
\* the metric table: both sums of lines 259-262 are then the Python int 0, and
\* 0 / 0 is a ZeroDivisionError.  A numeric column gives the numpy 0 / 0, nan.
OvKpiSummary ==
    /\ pc = "ov_metrics"
    /\ IF RawDtype(actuals, "Yield Kg") = "object"
       THEN Raise /\ UNCHANGED cards
       ELSE /\ LET weighted_accuracy == WeightedAccuracy(weekly, "Yield Kg")
                   avg_abs_error == MeanInts(Column(weekly, "Abs_Disparity_Kg"))
                   cum_abs_error == Rat(SumInts(Column(weekly, "Abs_Disparity_Kg")), 1)
               IN  cards' = cards \o
                      << Card(<<>>, "Weighted Forecast Accuracy",
                              FormatWeighted(weighted_accuracy, weekly, "Yield Kg")),
                         Card(<<>>, "Avg Absolute Forecast Variance (ton)",
                              Format(RatDiv(avg_abs_error, Rat(1000, 1)), 10)),
                         Card(<<>>, "Cumulative Absolute Forecast Variance (ton)",
                              Format(RatDiv(cum_abs_error, Rat(1000, 1)), 1)) >>
            /\ pc' = "ov_kpi"
            /\ UNCHANGED messages
    /\ UNCHANGED <<files, widgets, session, dtypes, heatmap, actuals_weekly, forecast_weekly, merged, df,
                   field, sel, weekly, weekly_plot, aggregated_wages>>

\* lines 287-292: the detail table; the run ends
OvDetailTable ==
    /\ pc = "ov_kpi"
    /\ pc' = "done"
    /\ UNCHANGED <<files, widgets, session, dtypes, heatmap, actuals_weekly, forecast_weekly, merged, df,
                   field, sel, weekly, weekly_plot, aggregated_wages, cards, messages>>

WeekLoader == "load_week_out_with_season"

\* mutant: the filter applied without the "if selection" guard
PlainFilter_Always(T, c, selection) == Isin(T, c, selection)

\* a sidebar multiselect without the "All" option: if selection: df = df[isin]
PlainFilter(T, c, selection) == IF selection # {} THEN Isin(T, c, selection) ELSE T

WeekKeys == <<"Season", "Fiscal Year", "Weeks Out", "Fiscal Week">>

\* line 300: the cached load of the week-out extract, outside any try
WkLoad ==
    /\ pc = "start" /\ selected_tab = "Weekly Analysis"
    /\ CallLoader(WeekLoader)
    /\ IF cache'[WeekLoader] = <<>>
       THEN Raise /\ UNCHANGED <<df, dtypes>>
       ELSE /\ df' = cache'[WeekLoader][1][1]
            /\ dtypes' = (<<"df_week", "Year">> :> RawDtype(df', "Year"))
                          @@ (<<"df_week", "As at Fiscal Week">>
                                 :> RawDtype(df', "As at Fiscal Week"))
            /\ pc' = "wk_loaded"
            /\ UNCHANGED messages
    /\ UNCHANGED <<files, widgets, heatmap, actuals_weekly, forecast_weekly, merged,
                   field, sel, weekly, weekly_plot, aggregated_wages, cards>>

\* lines 302-311: canonical names, integer year and week
WkNormalise ==
    /\ pc = "wk_loaded"
    /\ LET renamed == Rename(df, ("Weeks_out" :> "Weeks Out")
                                 @@ ("As at Fiscal Week" :> "Fiscal Week")
                                 @@ ("Year" :> "Fiscal Year")
                                 @@ ("Actual" :> "Actual Kg")
                                 @@ ("Forecast" :> "Forecast Kg"))
       IN  IF CanCastInt(renamed, "Fiscal Week") /\ CanCastInt(renamed, "Fiscal Year")
           THEN /\ df' = renamed /\ pc' = "wk_normalised" /\ UNCHANGED messages
                /\ dtypes' = (<<"df_week", "Fiscal Year">> :> "int64")
                              @@ (<<"df_week", "Fiscal Week">> :> "int64")
           ELSE Raise /\ UNCHANGED <<df, dtypes>>
    /\ UNCHANGED <<files, widgets, session, heatmap, actuals_weekly, forecast_weekly, merged,
                   field, sel, weekly, weekly_plot, aggregated_wages, cards>>

\* one Weekly Analysis multiselect without "All", and the filter that follows it
WkPlainFilter(from, to, c) ==
    /\ pc = from
    /\ \E s \in SUBSET UniqueDropNa(df, c) :
          /\ sel' = s
          /\ df' = PlainFilter(df, c, s)
    /\ field' = c
    /\ pc' = to
    /\ UNCHANGED <<files, widgets, session, dtypes, heatmap, actuals_weekly, forecast_weekly, merged,
                   weekly, weekly_plot, aggregated_wages, cards, messages>>

\* lines 315-325
WkFilterSeason == WkPlainFilter("wk_normalised", "wk_season", "Season")

\* lines 327-337
WkFilterPlant == WkPlainFilter("wk_season", "wk_plant", "Plant")

\* lines 339-354: the category multiselect has "All"; an empty selection stops the view
WkFilterCategory ==
    /\ pc = "wk_plant"
    /\ \E s \in SUBSET ({All} \cup UniqueDropNa(df, "Product Category")) :
          /\ sel' = s
          /\ df' = MultiselectFilter(df, "Product Category", s)
          /\ IF s = {}
             THEN /\ messages' = Append(messages, "Select a Product Category to display analysis.")
                  /\ pc' = "stopped"
             ELSE /\ UNCHANGED messages
                  /\ pc' = "wk_category"
    /\ field' = "Product Category"
    /\ UNCHANGED <<files, widgets, session, dtypes, heatmap, actuals_weekly, forecast_weekly, merged,
                   weekly, weekly_plot, aggregated_wages, cards>>

\* lines 396-398: f"{x} week{'s' if x > 1 else ''}-out", x a cell of Weeks
\* Out.  The column is not cast: a float64 column prints its cells as 1.0
WeeksOutLabel(x, dtype) ==
    ToString(x) \o (IF dtype = "float64" THEN ".0" ELSE "")
                \o " week" \o (IF x > 1 THEN "s" ELSE "") \o "-out"

\* lines 379-400: the plot table has no Abs_Disparity_Kg column, |disparity|
\* is taken in place; each row gets its horizon label and the series "Actual"
WithPlotMetrics(T) ==
    [i \in DOMAIN T |->
        LET d == T[i]["Forecast Kg"] - T[i]["Actual Kg"]
        IN  T[i] @@ ("Disparity Kg" :> d)
                 @@ ("Forecast Accuracy" :> ForecastAccuracy(Abs(d), T[i]["Actual Kg"]))
                 @@ ("Weeks Out Label"
                        :> WeeksOutLabel(T[i]["Weeks Out"],
                                         RawDtype(cache[WeekLoader][1][1], "Weeks_out")))
                 @@ ("Series" :> "Actual")]

\* lines 364-513: the plot table, its metrics, the two charts
WkPlotTable ==
    /\ pc = "wk_category"
    /\ weekly_plot' = WithPlotMetrics(
                         GroupByAgg(df, WeekKeys, {"Actual Kg", "Forecast Kg"}, {}))
    /\ pc' = "wk_plot"
    /\ UNCHANGED <<files, widgets, session, dtypes, heatmap, actuals_weekly, forecast_weekly, merged, df,
                   field, sel, weekly, aggregated_wages, cards, messages>>

\* lines 519-545: the KPI table
WkKpiTable ==
    /\ pc = "wk_plot"
    /\ weekly' = WithMetrics(GroupByAgg(df, WeekKeys, {"Actual Kg", "Forecast Kg"}, {}),
                             "Actual Kg", "Forecast Kg")
    /\ pc' = "wk_kpi"
    /\ UNCHANGED <<files, widgets, session, dtypes, heatmap, actuals_weekly, forecast_weekly, merged, df,
                   field, sel, weekly_plot, aggregated_wages, cards, messages>>

\* the three cards of one horizon, or nothing when compute_kpis gives None
HorizonCards(w) ==
    LET subset == SelectSeq2(weekly, {i \in DOMAIN weekly : weekly[i]["Weeks Out"] = w})
        k == compute_kpis(subset)
    IN  IF k[1] = None THEN <<>>
        ELSE << Card(<<w>>, "Weighted Forecast Accuracy",
                     FormatWeighted(k[1], subset, "Actual Kg")),
                Card(<<w>>, "Avg Absolute Forecast Variance (ton)",
                     Format(RatDiv(k[2], Rat(1000, 1)), 10)),
                Card(<<w>>, "Cumulative Absolute Forecast Variance (ton)",
                     Format(RatDiv(k[3], Rat(1000, 1)), 1)) >>

RECURSIVE CardsOf(_)
CardsOf(ws) == IF ws = <<>> THEN <<>> ELSE HorizonCards(Head(ws)) \o CardsOf(Tail(ws))

\* lines 547-584: one block of cards per horizon; the run ends
WkKpiCards ==
    /\ pc = "wk_kpi"
    /\ cards' = cards \o CardsOf(SortInts(UniqueDropNa(weekly, "Weeks Out")))
    /\ pc' = "done"
    /\ UNCHANGED <<files, widgets, session, dtypes, heatmap, actuals_weekly, forecast_weekly, merged, df,
                   field, sel, weekly, weekly_plot, aggregated_wages, messages>>

\* sorted(series.unique()) on a column of names raises when a missing cell
\* (a float nan) is compared with a name
Sortable(S) == ~(NA \in S /\ Cardinality(S) > 1)

\* lines 592-596: the cached load of the wages extract, in try / except
WgLoad ==
    /\ pc = "start" /\ selected_tab = "Wages Analysis"
    /\ CallLoader("load_wages_data")
    /\ IF cache'["load_wages_data"] = <<>>
       THEN /\ messages' = Append(messages, "Error loading wages data")
            /\ pc' = "stopped"
            /\ UNCHANGED <<df, dtypes>>
       ELSE /\ df' = cache'["load_wages_data"][1][1]
            /\ dtypes' = (<<"wages_df", "Costa Fiscal Year">> :> RawDtype(df', "Costa Fiscal Year"))
                          @@ (<<"wages_df", "Fiscal Week No">> :> RawDtype(df', "Fiscal Week No"))
            /\ pc' = "wg_loaded"
            /\ UNCHANGED messages
    /\ UNCHANGED <<files, widgets, heatmap, actuals_weekly, forecast_weekly, merged,
                   field, sel, weekly, weekly_plot, aggregated_wages, cards>>

\* lines 612-622: default=[fy_list[0]] raises on an empty extract
WgFilterFiscalYear ==
    /\ pc = "wg_loaded"
    /\ IF df = <<>>
       THEN Raise /\ UNCHANGED <<df, field, sel>>
       ELSE /\ \E s \in SUBSET ({All} \cup Unique(df, "Costa Fiscal Year")) :
                  /\ sel' = s
                  /\ df' = MultiselectFilter(df, "Costa Fiscal Year", s)
            /\ field' = "Costa Fiscal Year"
            /\ pc' = "wg_fy"
            /\ UNCHANGED messages
    /\ UNCHANGED <<files, widgets, session, dtypes, heatmap, actuals_weekly, forecast_weekly, merged,
                   weekly, weekly_plot, aggregated_wages, cards>>

\* lines 624-644
WgFilterFiscalWeek ==
    SidebarFilter("wg_fy", "wg_fw", "Fiscal Week No", Unique(df, "Fiscal Week No"))

\* a Wages multiselect over a column of names
WgNameFilter(from, to, c) ==
    /\ pc = from
    /\ IF ~Sortable(Unique(df, c))
       THEN Raise /\ UNCHANGED <<df, field, sel>>
       ELSE /\ \E s \in SUBSET ({All} \cup Unique(df, c)) :
                  /\ sel' = s
                  /\ df' = MultiselectFilter(df, c, s)
            /\ field' = c
            /\ pc' = to
            /\ UNCHANGED messages
    /\ UNCHANGED <<files, widgets, session, dtypes, heatmap, actuals_weekly, forecast_weekly, merged,
                   weekly, weekly_plot, aggregated_wages, cards>>

\* lines 646-656
WgFilterPlant == WgNameFilter("wg_fw", "wg_plant", "Plant")
\* lines 658-668
WgFilterCategory == WgNameFilter("wg_plant", "wg_category", "Product Category")
\* lines 670-680
WgFilterVariety == WgNameFilter("wg_category", "wg_variety", "Product Variety")
\* lines 682-692
WgFilterLocation == WgNameFilter("wg_variety", "wg_location", "Location")

\* lines 697-708
GroupCols ==
    IF time_granularity = "Daily"
    THEN <<"Costa Fiscal Year", "Fiscal Week No", "Pick Date", "Plant", "Product Category">>
    ELSE <<"Costa Fiscal Year", "Fiscal Week No", "Plant", "Product Category">>

\* lines 727-737 in binary64, for one row of the aggregate:
\* Picker Cost/Hr - EA Rate
PickerVarianceFloat(row) ==
    Float64Minus(Float64OfRat(row["Picker Cost/Hr"]), Float64OfRat(row["EA Rate"]))

\* (Picker Variance from EA / EA Rate) * 100, the EA rate not zero
PickerPctFloat(row) ==
    LET ea == Float64OfRat(row["EA Rate"])
        pv == PickerVarianceFloat(row)
    IN  Signed(pv.sign * ea.sign, Float64Mul(Float64Quot(pv.mag, ea.mag), 100))

\* the floats of the Picker % Variance cells that are numbers
PickerPctFloats(T) ==
    LET kept == SelectSeq2(T, {i \in DOMAIN T : IsFinite(T[i]["Picker % Variance"])})
    IN  [i \in DOMAIN kept |-> PickerPctFloat(kept[i])]

\* lines 726-740: variance and percentage variance against the EA rate.  A
\* cell holds the exact value of which the code holds the binary64; what is
\* printed, or floor-divided, is taken from the binary64 (PickerPctFloat).
WithVariance(T) ==
    [i \in DOMAIN T |->
        LET pv == RatSub(T[i]["Picker Cost/Hr"], T[i]["EA Rate"])
            tv == RatSub(T[i]["Total Cost/Hr"], T[i]["EA Rate"])
        IN  T[i] @@ ("Picker Variance from EA" :> pv) @@ ("Total Variance from EA" :> tv)
                 @@ ("Picker % Variance" :> RatMul(RatDiv(pv, T[i]["EA Rate"]), Rat(100, 1)))
                 @@ ("Total % Variance" :> RatMul(RatDiv(tv, T[i]["EA Rate"]), Rat(100, 1)))]

\* lines 697-740: aggregation by the time granularity, then the variance columns
WgAggregate ==
    /\ pc = "wg_location"
    /\ aggregated_wages' =
          WithVariance(Rename(
              GroupByAgg(df, GroupCols, {"Yield Kg"},
                         {"Cost Per Hour - Picker Cost (Excl Ancillary Costs)",
                          "Cost Per Hour - Total Harvest Cost", "EAAverageCompetentRate"}),
              ("Cost Per Hour - Picker Cost (Excl Ancillary Costs)" :> "Picker Cost/Hr")
              @@ ("Cost Per Hour - Total Harvest Cost" :> "Total Cost/Hr")
              @@ ("EAAverageCompetentRate" :> "EA Rate")))
    /\ pc' = "wg_aggregated"
    /\ UNCHANGED <<files, widgets, session, dtypes, heatmap, actuals_weekly, forecast_weekly, merged, df,
                   field, sel, weekly, weekly_plot, cards, messages>>

\* Series.mean() of a float column: missing cells are skipped, nan when none is left
MeanRats(s) ==
    LET kept == SelectSeq(s, LAMBDA x : ~IsNaN(x))
    IN  RatDiv(SumRats(kept), Rat(Len(kept), 1))

\* lines 749-751, 756, 762, 767: f"${aggregated_wages[c].mean():.2f}"; nan
\* prints nan
FormatCostMean(T, c) ==
    LET x == MeanRats(Column(T, c))
    IN  IF ~IsFinite(x) THEN x
        ELSE FormatFloat(Float64Mean([i \in DOMAIN T |-> Float64OfRat(T[i][c])]), 100)

\* lines 752, 757: f"{avg_variance:+.1f}"; nan and inf print as such
FormatPctMean(T) ==
    LET x == MeanRats(Column(T, "Picker % Variance"))
    IN  IF ~IsFinite(x) THEN x
        ELSE FormatFloat(Float64Mean(PickerPctFloats(T)), 10)

\* lines 745-773: the four summary cards
WgSummaryCards ==
    /\ pc = "wg_aggregated"
    /\ cards' = cards \o
          << Card(<<>>, "Avg Picker Cost/Hr", FormatCostMean(aggregated_wages, "Picker Cost/Hr")),
             Card(<<>>, "vs EA", FormatPctMean(aggregated_wages)),
             Card(<<>>, "Avg Total Cost/Hr", FormatCostMean(aggregated_wages, "Total Cost/Hr")),
             Card(<<>>, "Avg EA Rate", FormatCostMean(aggregated_wages, "EA Rate")),
             Card(<<>>, "Total Volume (tons)",
                  Format(Rat(SumInts(Column(aggregated_wages, "Yield Kg")), 1000), 1)) >>
    /\ pc' = "wg_cards"
    /\ UNCHANGED <<files, widgets, session, dtypes, heatmap, actuals_weekly, forecast_weekly, merged, df,
                   field, sel, weekly, weekly_plot, aggregated_wages, messages>>

\* Series.min() / Series.max(): missing cells skipped, nan when none is left,
\* infinities compared like numbers
MinRats(s) ==
    LET kept == {s[i] : i \in {j \in DOMAIN s : ~IsNaN(s[j])}}
    IN  IF kept = {} THEN NaN
        ELSE CHOOSE m \in kept : \A x \in kept : ~RatLess(x, m)

MaxRats(s) ==
    LET kept == {s[i] : i \in {j \in DOMAIN s : ~IsNaN(s[j])}}
    IN  IF kept = {} THEN NaN
        ELSE CHOOSE m \in kept : \A x \in kept : ~RatLess(m, x)

\* max(a, b, 25) of the builtin, on floats that are not negative
Max25(a, b) ==
    LET ab == IF Float64Cmp(a, b) < 0 THEN b ELSE a
    IN  IF Float64Cmp(ab, Float64Of(25)) < 0 THEN Float64Of(25) ELSE ab

\* lines 880-882: symmetric around 0, at least 25, up to the next multiple of
\* 5; x // 5 is the floor of the float by 5, and nan for an infinite x
ScaleLimit(T, min_variance, max_variance) ==
    IF ~IsFinite(min_variance) \/ ~IsFinite(max_variance) THEN NaN
    ELSE LET scale_limit == Max25(Float64Min(PickerPctFloats(T)).mag,
                                  Float64Max(PickerPctFloats(T)).mag)
         IN  Rat(((Float64Floor(scale_limit) \div 5) + 1) * 5, 1)

\* line 961: f"{min_variance:.1f}" and f"{max_variance:.1f}"; inf prints inf
FormatRange(T, min_variance, max_variance) ==
    << IF ~IsFinite(min_variance) THEN min_variance
       ELSE FormatFloat(Float64Min(PickerPctFloats(T)), 10),
       IF ~IsFinite(max_variance) THEN max_variance
       ELSE FormatFloat(Float64Max(PickerPctFloats(T)), 10) >>

\* lines 868-968: the heatmap, or the warning that stands for it
Heatmap(T) ==
    LET pct == Column(T, "Picker % Variance")
        min_variance == MinRats(pct)
        max_variance == MaxRats(pct)
    IN  IF T = <<>> \/ \A i \in DOMAIN pct : IsNaN(pct[i])
        THEN [NoHeatmap EXCEPT !.warning = "No data available for the selected filters."]
        ELSE IF IsNaN(min_variance) \/ IsNaN(max_variance)
        THEN [NoHeatmap EXCEPT !.warning = "Cannot calculate variance."]
        ELSE [warning |-> "",
              scale_limit |-> ScaleLimit(T, min_variance, max_variance),
              colours |-> pct,
              caption |-> FormatRange(T, min_variance, max_variance)]

RECURSIVE SortRows(_, _)
\* df.sort_values(cols): rows in the order of their cells in cols, rows
\* that tie in the order they had
SortRows(T, cols) ==
    IF T = <<>> THEN <<>>
    ELSE LET Rank(i) == Key(T[i], cols) \o <<i>>
             m == CHOOSE i \in DOMAIN T : \A j \in DOMAIN T \ {i} : LexLess(Rank(i), Rank(j))
         IN  <<T[m]>> \o SortRows(SelectSeq2(T, DOMAIN T \ {m}), cols)

\* lines 1005-1039: the detail table, its cells as style.format prints them
display_df ==
    LET sort_cols == IF time_granularity = "Daily" THEN <<"Pick Date", "Plant">>
                     ELSE <<"Costa Fiscal Year", "Fiscal Week No", "Plant">>
        T == SortRows(aggregated_wages, sort_cols)
    IN  [i \in DOMAIN T |->
            [c \in Range(GroupCols) \cup {"Picker Cost/Hr", "Total Cost/Hr", "EA Rate",
                                   "Picker Variance from EA", "Picker % Variance", "Yield Kg"} |->
                IF c \in {"Picker Cost/Hr", "Total Cost/Hr", "EA Rate"}
                THEN FormatFloat(Float64OfRat(T[i][c]), 100)
                ELSE IF c = "Picker Variance from EA"
                THEN FormatFloat(PickerVarianceFloat(T[i]), 100)
                ELSE IF c = "Picker % Variance"
                THEN (IF ~IsFinite(T[i][c]) THEN T[i][c]
                      ELSE FormatFloat(PickerPctFloat(T[i]), 10))
                ELSE T[i][c]]]

\* line 896: dt.strftime("%Y-%m-%d").  A Pick Date d of the model is the
\* d-th day of January 2024
strftime(d) == "2024-01-" \o (IF d < 10 THEN "0" ELSE "") \o ToString(d)

\* lines 776-1039: trend chart, variance heatmap, detail table; the run ends.
\* A heatmap drawn by day (lines 892-896) adds the column Pick Date Str to
\* the aggregate, which the detail table is then cut from
WgCharts ==
    /\ pc = "wg_cards"
    /\ heatmap' = Heatmap(aggregated_wages)
    /\ aggregated_wages' =
          IF time_granularity = "Daily" /\ heatmap'.warning = ""
          THEN [i \in DOMAIN aggregated_wages |->
                   aggregated_wages[i]
                      @@ ("Pick Date Str" :> strftime(aggregated_wages[i]["Pick Date"]))]
          ELSE aggregated_wages
    /\ pc' = "done"
    /\ UNCHANGED <<files, widgets, session, dtypes, actuals_weekly, forecast_weekly, merged, df,
                   field, sel, weekly, weekly_plot, cards, messages>>

\* a widget change reruns the script from the top with fresh locals.  The
\* widget may be the Time Granularity radio (lines 604-610) when the run has
\* drawn it: the Wages view past its load.  A run that has not drawn the radio
\* leaves it at its first option, "Weekly" (index=0), for the next run.
Rerun ==
    /\ pc \in {"done", "stopped", "error"}
    /\ IF selected_tab = "Wages Analysis" /\ pc \in {"done", "error"}
       THEN time_granularity' \in {"Weekly", "Daily"}
       ELSE time_granularity' = "Weekly"
    /\ pc' = "start"
    /\ actuals_weekly' = <<>> /\ forecast_weekly' = <<>> /\ merged' = <<>>
    /\ df' = <<>> /\ field' = "" /\ sel' = {}
    /\ weekly' = <<>> /\ weekly_plot' = <<>> /\ aggregated_wages' = <<>>
    /\ cards' = <<>> /\ messages' = <<>>
    /\ dtypes' = <<>> /\ heatmap' = NoHeatmap
    /\ UNCHANGED <<files, selected_tab, session>>

Next ==
    \/ OvLoad \/ OvWeeklyAggregation \/ OvMerge
    \/ OvFilterFiscalYear \/ OvFilterFiscalWeek \/ OvFilterPlant \/ OvFilterCategory
    \/ OvWeeklyMetrics \/ OvKpiSummary \/ OvDetailTable
    \/ WkLoad \/ WkNormalise \/ WkFilterSeason \/ WkFilterPlant \/ WkFilterCategory
    \/ WkPlotTable \/ WkKpiTable \/ WkKpiCards
    \/ WgLoad \/ WgFilterFiscalYear \/ WgFilterFiscalWeek \/ WgFilterPlant
    \/ WgFilterCategory \/ WgFilterVariety \/ WgFilterLocation
    \/ WgAggregate \/ WgSummaryCards \/ WgCharts
    \/ Rerun

Spec == Init /\ [][Next]_vars

\* lines 64-69: another view chosen on the sidebar radio; the script reruns
\* from the top with fresh locals, in the same process.  The Time Granularity
\* radio is drawn anew, at "Weekly", when the Wages view is next shown.
SelectTab ==
    /\ pc \in {"done", "stopped", "error"}
    /\ selected_tab' \in Tabs \ {selected_tab}
    /\ time_granularity' = "Weekly"
    /\ pc' = "start"
    /\ actuals_weekly' = <<>> /\ forecast_weekly' = <<>> /\ merged' = <<>>
    /\ df' = <<>> /\ field' = "" /\ sel' = {}
    /\ weekly' = <<>> /\ weekly_plot' = <<>> /\ aggregated_wages' = <<>>
    /\ cards' = <<>> /\ messages' = <<>>
    /\ dtypes' = <<>> /\ heatmap' = NoHeatmap
    /\ UNCHANGED <<files, session>>

\* a file of one row (the first of its domain), or no file
OneRow(f, D) == IF f \in unreadable THEN <<>> ELSE <<D[1]>>

\* a whole session: the process starts on the first view of the radio, every
\* view has its extract, and any of the four files may be missing
SessionInit ==
    /\ NoRun /\ NoSession
    /\ selected_tab = "Accuracy Overview"
    /\ time_granularity = "Weekly"
    /\ unreadable \in SUBSET Files
    /\ actualsFile = OneRow("Actuals.xlsx", ActualDomain)
    /\ forecastFile = OneRow("Roster_Data.xlsx", ForecastDomain)
    /\ weekFile = OneRow(LoaderFiles[WeekLoader][1], WeekDomain)
    /\ wagesFile = OneRow("wages raw data.xlsx", WagesDomain)

SessionNext == Next \/ SelectTab

Session == SessionInit /\ [][SessionNext]_vars

-----------------------------------------------------------------------------
(* Properties *)

\* the actual-volume column of the metric tables of the view shown
ActualCol == IF selected_tab = "Accuracy Overview" THEN "Yield Kg" ELSE "Actual Kg"

\* acc is clip((1 - |forecast - actual| / actual) * 100, 0, 100), for actual # 0,
\* stated in integers
AccuracyIs(acc, actual, forecastKg) ==
    LET e == Abs(forecastKg - actual)
    IN  IF actual < 0 THEN acc = <<100, 1>>
        ELSE IF e >= actual THEN acc = <<0, 1>>
        ELSE acc[2] > 0 /\ acc[1] * actual = 100 * (actual - e) * acc[2]

\* C1: in the Overview metric table, the Weekly Analysis plot table and the
\* Weekly Analysis KPI table, every row with a non-zero actual has
\* disparity = forecast - actual, absolute disparity = |disparity| and
\* accuracy = clip((1 - absDisparity / actual) * 100, 0, 100).
C1_MetricFormulas ==
    /\ \A i \in DOMAIN weekly :
          LET r == weekly[i] IN
          r[ActualCol] # 0 =>
             /\ r["Disparity Kg"] = r["Forecast Kg"] - r[ActualCol]
             /\ r["Abs_Disparity_Kg"] = Abs(r["Disparity Kg"])
             /\ AccuracyIs(r["Forecast Accuracy"], r[ActualCol], r["Forecast Kg"])
    /\ \A i \in DOMAIN weekly_plot :
          LET r == weekly_plot[i] IN
          r["Actual Kg"] # 0 =>
             /\ r["Disparity Kg"] = r["Forecast Kg"] - r["Actual Kg"]
             /\ AccuracyIs(r["Forecast Accuracy"], r["Actual Kg"], r["Forecast Kg"])

\* the example of the specification: actual 1000 (600 + 400), forecast 1100
C1_Witness ==
    /\ selected_tab = "Accuracy Overview"
    /\ \E i \in DOMAIN weekly :
          /\ weekly[i]["Yield Kg"] = 1000 /\ weekly[i]["Forecast Kg"] = 1100
          /\ weekly[i]["Disparity Kg"] = 100 /\ weekly[i]["Abs_Disparity_Kg"] = 100
          /\ weekly[i]["Forecast Accuracy"] = <<90, 1>>

\* C2: every row of every metric table has 0 <= accuracy <= 100.
C2_AccuracyBounds ==
    \A T \in {weekly, weekly_plot} : \A i \in DOMAIN T :
        LET acc == T[i]["Forecast Accuracy"]
        IN  acc[2] > 0 /\ 0 <= acc[1] /\ acc[1] <= 100 * acc[2]

\* a forecast more than twice the (non-zero) actual, and a zero actual, in one table
C2_Witness ==
    /\ \E i \in DOMAIN weekly :
          /\ weekly[i][ActualCol] > 0
          /\ weekly[i]["Forecast Kg"] > 2 * weekly[i][ActualCol]
          /\ weekly[i]["Forecast Accuracy"] = <<0, 1>>
    /\ \E i \in DOMAIN weekly : weekly[i][ActualCol] = 0

\* C3: a metric row whose actual is 0 has accuracy 0, whatever the forecast.
C3_ZeroActual ==
    \A T \in {weekly, weekly_plot} : \A i \in DOMAIN T :
        T[i][ActualCol] = 0 => T[i]["Forecast Accuracy"] = <<0, 1>>

\* actual 0 with forecast 5 and actual 0 with forecast 0, in a run that ended normally
C3_Witness ==
    /\ pc = "done"
    /\ \E i \in DOMAIN weekly :
          /\ weekly[i][ActualCol] = 0 /\ weekly[i]["Forecast Kg"] = 5
          /\ weekly[i]["Forecast Accuracy"] = <<0, 1>>
    /\ \E i \in DOMAIN weekly :
          /\ weekly[i][ActualCol] = 0 /\ weekly[i]["Forecast Kg"] = 0
          /\ weekly[i]["Forecast Accuracy"] = <<0, 1>>

\* the cards that show a weighted accuracy
WeightedCards(section) ==
    {i \in DOMAIN cards : /\ cards[i].label = "Weighted Forecast Accuracy"
                          /\ cards[i].section = section}

\* C4: when the metric rows are empty or their actual weights sum to 0, no
\* weighted-accuracy card is rendered (Overview KPI summary, and each horizon
\* of the Weekly Analysis KPI blocks).
C4_NoKpiWithoutWeight ==
    /\ (selected_tab = "Accuracy Overview" /\ pc \in {"ov_kpi", "done"}
            /\ SumInts(Column(weekly, "Yield Kg")) = 0)
          => WeightedCards(<<>>) = {}
    /\ (selected_tab = "Weekly Analysis" /\ pc = "done")
          => \A w \in UniqueDropNa(weekly, "Weeks Out") :
                SumInts(Column(SelectSeq2(weekly, {i \in DOMAIN weekly :
                                                     weekly[i]["Weeks Out"] = w}),
                               "Actual Kg")) = 0
                   => WeightedCards(<<w>>) = {}

\* C5: every aggregation conserves the total of the summed measure of its input.
C5_AggregationConserves ==
    /\ pc = "ov_aggregated" =>
          /\ SumInts(Column(actuals_weekly, "Yield Kg")) = SumInts(Column(actualsFile, "Yield Kg"))
          /\ SumInts(Column(forecast_weekly, "Forecast Kg")) = SumInts(Column(forecastFile, "kg"))
    /\ pc = "wk_plot" =>
          /\ SumInts(Column(weekly_plot, "Actual Kg")) = SumInts(Column(df, "Actual Kg"))
          /\ SumInts(Column(weekly_plot, "Forecast Kg")) = SumInts(Column(df, "Forecast Kg"))
    /\ pc = "wg_aggregated" =>
          SumInts(Column(aggregated_wages, "Yield Kg")) = SumInts(Column(df, "Yield Kg"))

KeysOf(T, cols) == {Key(T[i], cols) : i \in DOMAIN T}

Min(a, b) == IF a <= b THEN a ELSE b

\* the run is past line 119 and holds the joined table (a run that ended in
\* an exception after the join holds it too)
JoinDone ==
    /\ selected_tab = "Accuracy Overview"
    /\ \/ pc \in {"ov_merged", "ov_fy", "ov_fw", "ov_plant", "ov_category",
                   "ov_metrics", "ov_kpi", "done"}
       \/ pc = "error" /\ ~MergeRaises

\* the run ended at line 119: pd.merge raised, and no joined row was produced
JoinRaised == selected_tab = "Accuracy Overview" /\ pc = "error" /\ MergeRaises

\* C6 (as amended): both aggregated tables have one row per key, the inner
\* join produces at most min(|A|, |F|) rows, and it produces exactly
\* min(|A|, |F|) rows iff the key set of one table is contained in the key
\* set of the other.  Where pd.merge raises (both tables empty, a key column
\* object on one side and float64 on the other) no joined row is produced.
C6_JoinCardinality ==
    (JoinDone \/ JoinRaised) =>
       LET ka == KeysOf(actuals_weekly, JoinKeys)
           kf == KeysOf(forecast_weekly, JoinKeys)
           m == Min(Len(actuals_weekly), Len(forecast_weekly))
       IN  /\ Cardinality(ka) = Len(actuals_weekly)
           /\ Cardinality(kf) = Len(forecast_weekly)
           /\ Len(merged) <= m
           /\ Len(merged) = m <=> (ka \subseteq kf \/ kf \subseteq ka)

\* C6 as claimed: exactly min(|A|, |F|) rows iff the two key sets are equal.
C6_Original ==
    (JoinDone \/ JoinRaised) =>
       LET ka == KeysOf(actuals_weekly, JoinKeys)
           kf == KeysOf(forecast_weekly, JoinKeys)
           m == Min(Len(actuals_weekly), Len(forecast_weekly))
       IN  /\ Len(merged) <= m
           /\ Len(merged) = m <=> ka = kf

\* a non-empty join of min(|A|, |F|) rows between tables with different key sets
C6_Witness ==
    /\ JoinDone
    /\ merged # <<>>
    /\ Len(merged) = Min(Len(actuals_weekly), Len(forecast_weekly))
    /\ KeysOf(actuals_weekly, JoinKeys) # KeysOf(forecast_weekly, JoinKeys)

\* C7: no record is dropped by an aggregation because a grouping field is
\* missing: every input record has its group (the missing value standing as
\* one shared "unknown" value) among the aggregated rows.
C7_MissingDimensionKept ==
    /\ pc = "ov_aggregated" =>
          \A i \in DOMAIN actualsFile :
             Key(actualsFile[i], ActualKeys) \in KeysOf(actuals_weekly, JoinKeys)
    /\ pc = "wk_plot" =>
          \A i \in DOMAIN df : Key(df[i], WeekKeys) \in KeysOf(weekly_plot, WeekKeys)
    /\ pc = "wg_aggregated" =>
          \A i \in DOMAIN df : Key(df[i], GroupCols) \in KeysOf(aggregated_wages, GroupCols)

\* the positions reached by applying a multiselect that offers "All"
AllFilterStages ==
    {"ov_fy", "ov_fw", "ov_plant", "ov_category", "wk_category",
     "wg_fy", "wg_fw", "wg_plant", "wg_category", "wg_variety", "wg_location"}

\* this step applies a multiselect that offers "All"
AllFilterStep == pc' # pc /\ pc' \in AllFilterStages \cup {"stopped"}

\* C8: in every view, a filter whose selection contains "All" (alone or with
\* other values) leaves the table as it was.
C8_AllIsIdentity ==
    [][(AllFilterStep /\ All \in sel') => df' = df]_vars

\* "All" selected together with a value that would have removed a row
C8_Witness ==
    /\ pc \in AllFilterStages
    /\ All \in sel /\ sel # {All}
    /\ \E i \in DOMAIN df : df[i][field] \notin sel

\* this step applies a Weekly Analysis filter with nothing selected
WkEmptySelection(from) ==
    selected_tab = "Weekly Analysis" /\ pc = from /\ pc' # pc /\ sel' = {}

\* C9 as claimed: an empty Season, Plant or Product Category selection leaves
\* the table unchanged and the analysis goes on.
C9_Original ==
    [][\A from \in {"wk_normalised", "wk_season", "wk_plant"} :
          WkEmptySelection(from) =>
             df' = df /\ pc' \in {"wk_season", "wk_plant", "wk_category"}]_vars

\* C9 (as amended): an empty Season or Plant selection leaves the table
\* unchanged and the analysis goes on; an empty Product Category selection
\* shows "Select a Product Category to display analysis." and stops the view,
\* with no analysis table computed and no card rendered.
C9_EmptySelection ==
    [][/\ WkEmptySelection("wk_normalised") => df' = df /\ pc' = "wk_season"
       /\ WkEmptySelection("wk_season") => df' = df /\ pc' = "wk_plant"
       /\ WkEmptySelection("wk_plant") =>
             /\ pc' = "stopped"
             /\ messages' = <<"Select a Product Category to display analysis.">>
             /\ weekly_plot' = <<>> /\ weekly' = <<>> /\ cards' = <<>>
       /\ pc = "stopped" => pc' \in {"stopped", "start"}]_vars

\* no plant selected, and both rows of a two-plant table still there
C9_Witness ==
    /\ pc = "wk_plant" /\ sel = {}
    /\ Cardinality(Unique(df, "Plant")) = 2

\* the columns the sidebar of the view filters on
FilterCols ==
    IF selected_tab = "Accuracy Overview"
    THEN {"Fiscal Year", "Fiscal Week", "Plant", "Product Category"}
    ELSE IF selected_tab = "Weekly Analysis"
    THEN {"Season", "Plant", "Product Category"}
    ELSE {"Costa Fiscal Year", "Fiscal Week No", "Plant", "Product Category",
          "Product Variety", "Location"}

\* C10: a filter without "All" in its selection retains exactly the rows
\* whose field value is in its selection, and applying it before or after a
\* filter on another field (any selection) gives the same rows.
C10_FiltersCommute ==
    [][AllFilterStep =>
          /\ All \notin sel' =>
                df' = SelectSeq2(df, {i \in DOMAIN df : df[i][field'] \in sel'})
          /\ \A c \in FilterCols \ {field'} :
                \A s \in SUBSET ({All} \cup Unique(df, c)) :
                   MultiselectFilter(df', c, s)
                      = MultiselectFilter(MultiselectFilter(df, c, s), field', sel')]_vars

\* a second restricting filter, after which some joined rows are kept and some are not
C10_Witness ==
    /\ selected_tab = "Accuracy Overview" /\ pc = "ov_plant"
    /\ All \notin sel
    /\ df # <<>> /\ Len(df) < Len(merged)

\* the rows of the KPI table at horizon w (subset = weekly[weekly["Weeks Out"] == w])
Horizon(w) == SelectSeq2(weekly, {i \in DOMAIN weekly : weekly[i]["Weeks Out"] = w})

\* f"{x:.0f}" of df["Forecast Accuracy"].mean() as the floats give it
FormatMean(T, w) ==
    LET x == MeanRats(Column(T, "Forecast Accuracy"))
        mean == Float64Div(Float64Sum([i \in DOMAIN T |->
                               Float64Accuracy(T[i]["Abs_Disparity_Kg"], T[i][w])]),
                           Len(T))
    IN  IF ~IsFinite(x) THEN x ELSE FormatFloat(Signed(1, mean), 1)

\* every row of T carries the same non-zero weight in column c
SameWeight(T, c) == T # <<>> /\ T[1][c] # 0 /\ \A i \in DOMAIN T : T[i][c] = T[1][c]

\* C11: for a non-empty set of metric rows that all have the same non-zero
\* actual, the weighted accuracy sum(accuracy * actual) / sum(actual) is the
\* plain mean of the accuracies: in the Accuracy Overview KPI summary (and
\* on its card), and in compute_kpis for every horizon of the Weekly Analysis.
C11_WeightedIsMean ==
    /\ (selected_tab = "Accuracy Overview" /\ pc \in {"ov_metrics", "ov_kpi", "done"}
            /\ SameWeight(weekly, "Yield Kg"))
          => /\ WeightedAccuracy(weekly, "Yield Kg")
                   = MeanRats(Column(weekly, "Forecast Accuracy"))
             /\ pc # "ov_metrics" =>
                   cards[1].value = FormatMean(weekly, "Yield Kg")
    /\ (selected_tab = "Weekly Analysis" /\ pc \in {"wk_kpi", "done"})
          => \A w \in UniqueDropNa(weekly, "Weeks Out") :
                SameWeight(Horizon(w), "Actual Kg")
                   => compute_kpis(Horizon(w))[1]
                         = MeanRats(Column(Horizon(w), "Forecast Accuracy"))

\* two Overview metric rows of the same non-zero actual and of different
\* accuracies, and the card of their weighted accuracy
C11_Witness ==
    /\ selected_tab = "Accuracy Overview" /\ pc = "ov_kpi"
    /\ Len(weekly) = 2 /\ SameWeight(weekly, "Yield Kg")
    /\ weekly[1]["Forecast Accuracy"] # weekly[2]["Forecast Accuracy"]
    /\ weekly[1]["Forecast Kg"] # weekly[2]["Forecast Kg"]
    /\ cards[1].label = "Weighted Forecast Accuracy"

\* a number that can be shown: neither the missing marker nor an infinity
Shown(x) == x[2] # 0

\* C12: in the Wages Analysis, variance = cost - EA Rate and percentage
\* variance = variance / EA Rate * 100; an aggregated row whose EA Rate is 0
\* has the missing marker as its percentage variance; and no summary card,
\* heatmap colour-scale limit, heatmap cell, caption or table cell is
\* computed from or shows a missing or infinite percentage variance.
C12_PctVarianceChecked ==
    (selected_tab = "Wages Analysis" /\ pc \in {"wg_aggregated", "wg_cards", "done"}) =>
       /\ \A i \in DOMAIN aggregated_wages :
             LET r == aggregated_wages[i] IN
             /\ r["Picker Variance from EA"] = RatSub(r["Picker Cost/Hr"], r["EA Rate"])
             /\ r["Total Variance from EA"] = RatSub(r["Total Cost/Hr"], r["EA Rate"])
             /\ IF r["EA Rate"] = Rat(0, 1)
                THEN IsNaN(r["Picker % Variance"]) /\ IsNaN(r["Total % Variance"])
                ELSE /\ RatMul(r["Picker % Variance"], r["EA Rate"])
                           = RatMul(r["Picker Variance from EA"], Rat(100, 1))
                     /\ RatMul(r["Total % Variance"], r["EA Rate"])
                           = RatMul(r["Total Variance from EA"], Rat(100, 1))
       /\ pc \in {"wg_cards", "done"} =>
             \A i \in DOMAIN cards : cards[i].label = "vs EA" => Shown(cards[i].value)
       /\ (pc = "done" /\ heatmap.warning = "") =>
             /\ Shown(heatmap.scale_limit)
             /\ \A i \in DOMAIN heatmap.colours : Shown(heatmap.colours[i])
             /\ \A i \in DOMAIN heatmap.caption : Shown(heatmap.caption[i])
       /\ pc = "done" =>
             \A i \in DOMAIN display_df : Shown(display_df[i]["Picker % Variance"])

\* the loader the view shown calls
ViewLoader ==
    IF selected_tab = "Accuracy Overview" THEN "load_actuals_and_roster_data"
    ELSE IF selected_tab = "Weekly Analysis" THEN WeekLoader
    ELSE "load_wages_data"

\* C13: in each of the three views, when the extract of the view cannot be
\* loaded (a file missing or unreadable) the failure is caught at the load
\* call: the run stops there with one error message of the view, nothing
\* rendered, and no uncaught exception.
C13_LoadFailureReported ==
    (Fails(ViewLoader) /\ pc # "start") =>
       /\ pc = "stopped"
       /\ Len(messages) = 1 /\ messages[1] # "exception"
       /\ cards = <<>> /\ df = <<>>

\* the year and week columns of the extracts of the view shown, as loaded
KeyColumns ==
    IF selected_tab = "Accuracy Overview"
    THEN {<<actualsFile, "Costa Fiscal Year">>, <<actualsFile, "Fiscal Week No">>,
          <<forecastFile, "Fiscal Year">>, <<forecastFile, "Fiscal Week">>}
    ELSE IF selected_tab = "Weekly Analysis"
    THEN {<<weekFile, "Year">>, <<weekFile, "As at Fiscal Week">>}
    ELSE {<<wagesFile, "Costa Fiscal Year">>, <<wagesFile, "Fiscal Week No">>}

\* some fiscal year or fiscal week cell of the extract has no integer value
BadKeyCell == \E tc \in KeyColumns : ~CanCastInt(tc[1], tc[2])

\* the positions at which a chart, a card or a table has been rendered
Rendered == {"ov_kpi", "wk_plot", "wk_kpi", "wg_cards", "done"}

\* C14: in every view, an extract with a fiscal year or fiscal week value
\* that cannot be converted to an integer ends the run with an error before
\* anything is rendered: no chart, no card, no table; once loaded, such an
\* extract never reaches the metrics.
C14_BadKeyBlocks ==
    BadKeyCell =>
       /\ pc \notin Rendered
       /\ cards = <<>> /\ weekly = <<>> /\ weekly_plot = <<>> /\ aggregated_wages = <<>>

\* C15: across any sequence of runs, view switches and filter changes of one
\* process, once a loader has returned (its first successful load) its value
\* stays in the cache unchanged and none of its files is read again; so a
\* file whose loader can succeed is read at most once.  (A load that raises
\* caches nothing: its loader runs again on the next request.)
C15_ReadOnce ==
    [][\A l \in Loaders :
          /\ Cached(l) =>
                /\ cache'[l] = cache[l]
                /\ \A f \in Range(LoaderFiles[l]) : reads'[f] = reads[f]
          /\ Cached(l)' => cache'[l] = <<Loaded(l)>>
          /\ ~Fails(l) => \A f \in Range(LoaderFiles[l]) : reads'[f] <= 1]_vars

\* back on the first view after the two others were shown: its extracts come
\* from the cache, and each of the four files has been read once
C15_Witness ==
    /\ selected_tab = "Accuracy Overview" /\ pc = "ov_loaded"
    /\ \A l \in Loaders : Cached(l)
    /\ \A f \in Files : reads[f] = 1

\* C16: the fiscal year and fiscal week columns are int64 wherever they are
\* used as a grouping key, a join key or a filter field: on the raw extracts
\* of the Accuracy Overview when they are grouped, on both sides of its join
\* before the join runs, on the joined table while it is filtered; on the
\* Weekly Analysis table from normalisation on; on the Wages table while it
\* is filtered and grouped.
C16_IntegerKeys ==
    pc \notin {"start", "stopped", "error", "wk_loaded"} =>
       \A k \in DOMAIN dtypes : dtypes[k] = "int64"

\* the data stage that brings the script to a position: 1 load,
\* 2 key normalisation, 3 user filters, 4 aggregation, 5 join, 6 metrics,
\* 7 rendering (a position reached by several stages has the last of them)
StageRank(p) ==
    CASE p = "start" -> 0
      [] p \in {"ov_loaded", "wk_loaded", "wg_loaded"} -> 1
      [] p = "wk_normalised" -> 2
      [] p \in {"ov_fy", "ov_fw", "ov_plant", "ov_category", "wk_season", "wk_plant",
                "wk_category", "wg_fy", "wg_fw", "wg_plant", "wg_category",
                "wg_variety", "wg_location"} -> 3
      [] p = "ov_aggregated" -> 4
      [] p = "ov_merged" -> 5
      [] p \in {"ov_metrics", "wk_plot", "wk_kpi", "wg_aggregated"} -> 6
      [] OTHER -> 7

\* C17: in every run of every view the stages come in the order load, key
\* normalisation, user filters, aggregation, join, metrics, rendering; in
\* particular no user filter is applied after an aggregation or after the join.
C17_StageOrder ==
    [][(pc' # pc /\ pc' \notin {"start", "stopped", "error"}) =>
          /\ StageRank(pc) <= StageRank(pc')
          /\ StageRank(pc') = 3 => (StageRank(pc) < 4 /\ merged = <<>>)]_vars

\* the columns the claim groups on
Triple == <<"Plant", "Product Category", "Fiscal Week">>

\* the rows of the filtered joined table with the key k on those columns
Triples(k) == SelectSeq2(df, {i \in DOMAIN df : Key(df[i], Triple) = k})

\* C18: the Accuracy Overview metric table has exactly one row for each
\* (Plant, Product Category, Fiscal Week) of the filtered joined table; its
\* Yield Kg and Forecast Kg are the sums over the joined rows of that triple,
\* whatever their Fiscal Year, Product Variety and Location, and its
\* disparity and accuracy are computed on those sums.
C18_OneRowPerTriple ==
    (selected_tab = "Accuracy Overview" /\ pc \in {"ov_metrics", "ov_kpi", "done"}) =>
       /\ Len(weekly) = Cardinality(KeysOf(df, Triple))
       /\ KeysOf(weekly, Triple) = KeysOf(df, Triple)
       /\ \A i \in DOMAIN weekly :
             LET r == weekly[i]
                 rows == Triples(Key(r, Triple))
             IN  /\ DOMAIN r = Range(Triple) \cup
                                  {"Yield Kg", "Forecast Kg", "Disparity Kg",
                                   "Abs_Disparity_Kg", "Forecast Accuracy"}
                 /\ r["Yield Kg"] = SumInts(Column(rows, "Yield Kg"))
                 /\ r["Forecast Kg"] = SumInts(Column(rows, "Forecast Kg"))
                 /\ r["Disparity Kg"] = r["Forecast Kg"] - r["Yield Kg"]
                 /\ IF r["Yield Kg"] = 0 THEN r["Forecast Accuracy"] = <<0, 1>>
                    ELSE AccuracyIs(r["Forecast Accuracy"], r["Yield Kg"], r["Forecast Kg"])

\* two joined rows that differ in the variety only, in one metric row: 600
\* and 400 against 1100 and 0, accuracy 90 on the sums
C18_Witness ==
    /\ selected_tab = "Accuracy Overview" /\ pc = "ov_metrics"
    /\ Len(df) = 2 /\ df[1]["Product Variety"] # df[2]["Product Variety"]
    /\ Len(weekly) = 1
    /\ weekly[1]["Yield Kg"] = 1000 /\ weekly[1]["Forecast Kg"] = 1100
    /\ weekly[1]["Forecast Accuracy"] = <<90, 1>>

====
